---- MODULE Spec2Model ----
(***************************************************************************)
(* Session and request orchestration of streamlit_app.py.                  *)
(*                                                                         *)
(* The Streamlit script is re-executed from main() on every user           *)
(* interaction and on every st.rerun().  st.session_state is the only      *)
(* state that survives a run.  One run is modelled as a walk of `pc`       *)
(* through main(), login_page() or dashboard_page() and the call sites of  *)
(* make_authenticated_request that the page executes in order.  Every HTTP *)
(* exchange is recorded in `wire`.                                         *)
(*                                                                         *)
(* st.rerun() raises streamlit's RerunException, which derives from        *)
(* BaseException: it passes through `except Exception` and through         *)
(* `except requests.exceptions.ConnectionError`, and it is caught by a     *)
(* bare `except:`.                                                         *)
(***************************************************************************)
EXTENDS Integers, Sequences, FiniteSets, TLC

VARIABLES
    session,    \* st.session_state: a dict from key to value
    now,        \* datetime.now(), in seconds
    pc,         \* position of the running script ("idle": no run in progress)
    site,       \* index of the current call site in the page's script
    event,      \* the pressed button this run has not evaluated yet ("none": no press)
    view,       \* what the last dispatch of main() put on screen
    tabs,       \* the branch of dashboard_page (line 173) taken by this run
    wire,       \* the last HTTP exchange: endpoint, Authorization, body, status
    filters,    \* local `filters` of enhanced_analytics_section
    widgets,    \* widget values read by the section that is executing
    todo,       \* detail requests left in the loop over a listed archive
    batch,      \* locals of generate_multiple_daily_summaries
    generated,  \* server side: daily summaries generated for the running batch
    rates,      \* inputs and outputs of the rate renderers
    message,    \* text that main, login_page or make_authenticated_request showed in the last step
    sent        \* number of HTTP requests the last step of the script sent

vars == <<session, now, pc, site, event, view, tabs, wire, filters, widgets, todo,
          batch, generated, rates, message, sent>>

----------------------------------------------------------------------------
(* Bounds *)

MaxDays == 3        \* largest `days` passed to generate_multiple_daily_summaries
MaxChat == 2        \* longest chat_history explored
MaxListed == 1      \* most summaries an archive listing returns
MaxLate == 1        \* seconds explored after the 23 hour mark
MaxCalls == 8       \* largest total_calls explored exhaustively
MaxMidnights == 2   \* most midnights that pass while one batch loop runs

----------------------------------------------------------------------------
(* Values *)

NoneStr == "None"                   \* Python None where a string is expected
NoTime == -1                        \* Python None where a datetime is expected
EmptyDict == [k \in {} |-> FALSE]   \* {} and the absent JSON body
Missing == "<missing>"              \* a key that is absent from a JSON body
NoAuth == "<no Authorization header>"

HOURS_23 == 82800                   \* timedelta(hours=23), in seconds

NoMessage == "<no message>"
\* line 69
SESSION_EXPIRED == "Session expired. Please log in again."
\* line 75
CANNOT_CONNECT == "Cannot connect to the API server. Please make sure the FastAPI server is running."
\* lines 2227-2228 (the text after the leading emoji)
SERVER_DOWN == "Cannot connect to the API server. Please make sure the FastAPI server is running on https://medical-call-analytics-api.onrender.com"

TimePoints == {0} \cup (HOURS_23..(HOURS_23 + MaxLate))

Tokens == {"tokA", "tokB"}
Usernames == {"alice"}
Roles == {"manager", "receptionist"}
Replies == {"200", "401", "403", "500", "conn", "exc"}

SessionKeys == {"authenticated", "user_role", "access_token", "chat_history",
                "username", "login_time", "current_filters"}

Truthy(v) == v \notin {NoneStr, ""}

----------------------------------------------------------------------------
(* init_session_state, is_token_valid, make_authenticated_request *)

InitialSession ==
    [authenticated |-> FALSE, user_role |-> NoneStr, access_token |-> NoneStr,
     chat_history |-> <<>>, username |-> NoneStr, login_time |-> NoTime,
     current_filters |-> EmptyDict]

\* an initialisation that empties chat_history on every run
init_session_state_clears_chat(s) ==
    [k \in SessionKeys |-> IF k \in DOMAIN s /\ k # "chat_history"
                           THEN s[k] ELSE InitialSession[k]]

\* lines 27-41: every key is set only `if key not in st.session_state`
init_session_state(s) ==
    [k \in SessionKeys |-> IF k \in DOMAIN s THEN s[k] ELSE InitialSession[k]]

\* is_token_valid with the window closed at 23 hours (>= for >)
is_token_valid_closed(s, t) ==
    IF ~Truthy(s.access_token) \/ s.login_time = NoTime THEN FALSE
    ELSE IF t - s.login_time >= HOURS_23 THEN FALSE
    ELSE TRUE

is_token_valid(s, t) ==
    IF ~Truthy(s.access_token) \/ s.login_time = NoTime THEN FALSE
    ELSE IF t - s.login_time > HOURS_23 THEN FALSE
    ELSE TRUE

\* the 401 handler without the assignment of line 64
reset_on_401_keeps_authenticated(s) ==
    [s EXCEPT !.access_token = NoneStr, !.user_role = NoneStr,
              !.username = NoneStr, !.login_time = NoTime]

\* lines 63-68: the assignments made when the response status is 401
reset_on_401(s) ==
    [s EXCEPT !.authenticated = FALSE, !.access_token = NoneStr,
              !.user_role = NoneStr, !.username = NoneStr,
              !.login_time = NoTime]

\* make_authenticated_request resetting the session on every error status
mar_session_resets_on_error(s, reply) ==
    IF reply \in {"401", "403", "500"} THEN reset_on_401(s) ELSE s

\* session after make_authenticated_request has seen `reply`
mar_session(s, reply) == IF reply = "401" THEN reset_on_401(s) ELSE s

\* how make_authenticated_request leaves: "rerun" (RerunException from
\* st.rerun()), "none" (ConnectionError caught, returns None), "raise" (any
\* other exception of requests propagates) or "response"
mar_outcome(reply) ==
    CASE reply = "401" -> "rerun"
      [] reply = "conn" -> "none"
      [] reply = "exc" -> "raise"
      [] OTHER -> "response"

\* make_authenticated_request reporting a connection failure as an expiry
mar_message_expired_on_conn(reply) ==
    CASE reply \in {"401", "conn"} -> SESSION_EXPIRED
      [] OTHER -> NoMessage

\* the text make_authenticated_request shows with st.error (lines 69, 75)
mar_message(reply) ==
    CASE reply = "401" -> SESSION_EXPIRED
      [] reply = "conn" -> CANNOT_CONNECT
      [] OTHER -> NoMessage

\* the exchange make_authenticated_request puts on the wire
mar_wire(s, endpoint, body, reply) ==
    [ep |-> endpoint, authz |-> s.access_token, body |-> body,
     status |-> reply, resp |-> EmptyDict]

\* an exchange made with requests directly, without Authorization header
plain_wire(endpoint, body, reply, resp) ==
    [ep |-> endpoint, authz |-> NoAuth, body |-> body, status |-> reply,
     resp |-> resp]

\* `started` is the calendar day on which the loop was entered
NoBatch == [days |-> 0, i |-> 0, success_count |-> 0, error_count |-> 0,
            started |-> 0]
NoRates == [cancelled |-> 0, total_calls |-> 0, server_rate |-> 0,
            cancel_rate |-> 0, warned |-> FALSE, shown |-> "none",
            breakdown |-> <<>>, table |-> <<>>, info |-> NoMessage,
            metrics |-> 0, divisions |-> 0]

----------------------------------------------------------------------------
Init ==
    /\ session = EmptyDict
    /\ now = 0
    /\ pc = "start"
    /\ site = 0
    /\ event = "none"
    /\ view = "none"
    /\ tabs = "none"
    /\ wire = plain_wire("none", EmptyDict, "none", EmptyDict)
    /\ filters = EmptyDict
    /\ widgets = EmptyDict
    /\ todo = 0
    /\ batch = NoBatch
    /\ generated = 0
    /\ rates = NoRates
    /\ message = NoMessage
    /\ sent = 0

----------------------------------------------------------------------------
(* main() up to the dispatch to a page *)

\* a re-validation attempted for every unauthenticated session
main_revalidates_every_time(s, t) == ~s.authenticated

\* the guard of the token re-validation in main (line 2232)
main_revalidates(s, t) ==
    ~s.authenticated /\ is_token_valid(s, t) /\ Truthy(s.access_token)

\* main() dispatching without looking at the health check
main_view_without_health_check(health, s) ==
    IF s.authenticated THEN "dashboard" ELSE "login"

\* lines 2226-2240: what main() puts on screen
main_view(health, s) ==
    IF ~health THEN "conn_error"
    ELSE IF s.authenticated THEN "dashboard" ELSE "login"

Main ==
    /\ pc = "start"
    /\ LET s0 == init_session_state(session) IN
       \E health \in BOOLEAN :
         IF ~health THEN
            /\ session' = s0
            /\ wire' = plain_wire("/health", EmptyDict, "down", EmptyDict)
            /\ view' = main_view(health, s0)
            /\ pc' = "idle"
            /\ event' = "none"
            /\ message' = SERVER_DOWN
            /\ sent' = 1
         ELSE IF main_revalidates(s0, now) THEN
            \E reply \in Replies :
              LET s1 == mar_session(s0, reply)
                  s2 == IF reply = "200"
                        THEN [s1 EXCEPT !.authenticated = TRUE] ELSE s1
              IN /\ session' = s2
                 /\ wire' = mar_wire(s0, "/health", EmptyDict, reply)
                 /\ message' = mar_message(reply)
                 /\ sent' = 2
                 /\ event' = IF mar_outcome(reply) \in {"rerun", "raise"}
                             THEN "none" ELSE event
                 /\ CASE mar_outcome(reply) = "rerun" ->
                           pc' = "start" /\ view' = view
                      [] mar_outcome(reply) = "raise" ->
                           pc' = "idle" /\ view' = "crash"
                      [] OTHER ->
                           /\ view' = main_view(health, s2)
                           /\ pc' = IF s2.authenticated
                                    THEN "dashboard_page" ELSE "login_page"
         ELSE
            /\ session' = s0
            /\ wire' = plain_wire("/health", EmptyDict, "200", EmptyDict)
            /\ message' = NoMessage
            /\ sent' = 1
            /\ event' = event
            /\ view' = main_view(health, s0)
            /\ pc' = IF s0.authenticated
                     THEN "dashboard_page" ELSE "login_page"
    /\ tabs' = "none"
    /\ UNCHANGED <<now, site, filters, widgets, todo, batch, generated, rates>>

----------------------------------------------------------------------------
(* login_page() *)

LoginBodies ==
    [access_token : Tokens \cup {Missing},
     role : Roles \cup {Missing, NoneStr},
     detail : {Missing}]

\* the detail FastAPI returns with a rejected login
Details == {"Incorrect username or password"}

\* replies to POST /api/auth/login: 200 with a JSON body, 200 whose body is
\* not JSON, a non-200 status with or without a detail, a non-200 status
\* whose body is not JSON, or an exception of requests
LoginReplies ==
    [status : {"200"}, body : LoginBodies]
    \cup [status : {"401"},
          body : [access_token : {Missing}, role : {Missing},
                  detail : Details \cup {Missing}]]
    \cup [status : {"200nojson", "502nojson", "exc"},
          body : {[access_token |-> Missing, role |-> Missing,
                   detail |-> Missing]}]

\* str(e) of the exception that line 120 catches
JSON_ERROR == "Expecting value: line 1 column 1 (char 0)"
POST_ERROR == "HTTPSConnectionPool: Max retries exceeded"

login_exception(reply) ==
    CASE reply.status \in {"200nojson", "502nojson"} -> JSON_ERROR
      [] reply.status = "exc" -> POST_ERROR
      [] reply.status = "200" /\ reply.body.access_token = Missing ->
           "'access_token'"
      [] reply.status = "200" /\ reply.body.role = Missing -> "'role'"
      [] OTHER -> NoMessage

\* lines 115, 118-121: the text the Login button shows for a reply
login_message(reply) ==
    IF login_exception(reply) # NoMessage
    THEN "Login failed: " \o login_exception(reply)
    ELSE IF reply.status = "200" THEN "Login successful!"
    ELSE IF reply.body.detail # Missing
    THEN "Login failed: " \o reply.body.detail
    ELSE "Login failed: Invalid credentials"

\* lines 143-149: the text the Register button shows for a reply
register_message(status) ==
    CASE status = "200" -> "Registration successful! Please login."
      [] status = "exc" -> "Registration failed: " \o POST_ERROR
      [] OTHER -> "Registration failed: Registration failed"

\* the login assignments with login_time left as it was
login_assign_without_time(s, body, username, t) ==
    LET s1 == [s EXCEPT !.authenticated = TRUE]
        s2 == [s1 EXCEPT !.access_token = body.access_token]
        s3 == [s2 EXCEPT !.user_role = body.role, !.username = username]
    IN IF body.access_token = Missing THEN s1
       ELSE IF body.role = Missing THEN s2
       ELSE s3

\* lines 108-113: data = response.json() and the five assignments, in order;
\* a missing key raises KeyError and the assignments after it are not made
login_assign(s, body, username, t) ==
    LET s1 == [s EXCEPT !.authenticated = TRUE]
        s2 == [s1 EXCEPT !.access_token = body.access_token]
        s3 == [s2 EXCEPT !.user_role = body.role, !.username = username,
                         !.login_time = t]
    IN IF body.access_token = Missing THEN s1
       ELSE IF body.role = Missing THEN s2
       ELSE s3

\* line 116 is reached: no KeyError before it
login_completes(body) == body.access_token # Missing /\ body.role # Missing

\* the guard of the token re-validation in login_page (line 83)
login_revalidates(s, t) == is_token_valid(s, t) /\ Truthy(s.access_token)

\* a Login button that posts as soon as the username is filled in
login_fields_filled_username_only(username, password) == username # ""

\* line 97: `not username or not password` is false
login_fields_filled(username, password) == username # "" /\ password # ""

\* line 131: all([reg_username, reg_email, reg_password])
register_fields_filled(username, email, password) ==
    username # "" /\ email # "" /\ password # ""

\* a registration that logs the new user in when it is accepted
register_session_authenticates(s, status) ==
    IF status = "200" THEN [s EXCEPT !.authenticated = TRUE] ELSE s

\* lines 130-149 assign no key of st.session_state
register_session(s, status) == s

\* lines 89-149: the Login and Register forms, run on session s
LoginForms(s) ==
    CASE event = "login_btn" ->
           \E username \in Usernames \cup {""}, password \in {"", "pw"} :
             IF ~login_fields_filled(username, password) THEN
                /\ session' = s
                /\ pc' = "idle"
                /\ event' = "none"
                /\ message' = "Please enter both username and password"
                /\ sent' = 0
                /\ UNCHANGED wire
             ELSE
                \E reply \in LoginReplies :
                  /\ wire' = plain_wire("/api/auth/login",
                                [username |-> username, password |-> password],
                                reply.status, reply.body)
                  /\ message' = login_message(reply)
                  /\ sent' = 1
                  /\ IF reply.status = "200" THEN
                        /\ session' = login_assign(s, reply.body, username, now)
                        /\ IF login_completes(reply.body)
                           THEN pc' = "start" /\ event' = "none"
                           ELSE pc' = "idle" /\ event' = "none"
                     ELSE
                        /\ session' = s
                        /\ pc' = "idle"
                        /\ event' = "none"
      [] event = "register_btn" ->
           \E username \in Usernames \cup {""}, password \in {"", "pw"},
              email \in {"", "a@x"} :
             /\ pc' = "idle"
             /\ event' = "none"
             /\ IF ~register_fields_filled(username, email, password)
                THEN /\ session' = s
                     /\ message' = "Please fill in all fields"
                     /\ sent' = 0
                     /\ UNCHANGED wire
                ELSE \E status \in {"200", "400", "exc"} :
                       /\ session' = register_session(s, status)
                       /\ wire' = plain_wire("/api/auth/register",
                                    [username |-> username, email |-> email,
                                     password |-> password, role |-> "manager"],
                                    status, EmptyDict)
                       /\ message' = register_message(status)
                       /\ sent' = 1
      [] OTHER ->
           /\ session' = s
           /\ pc' = "idle"
           /\ event' = "none"
           /\ message' = NoMessage
           /\ sent' = 0
           /\ UNCHANGED wire

LoginPage ==
    /\ pc = "login_page"
    /\ IF login_revalidates(session, now) THEN
          \E reply \in Replies :
            LET s1 == mar_session(session, reply) IN
            /\ message' = mar_message(reply)
            /\ sent' = 1
            /\ CASE mar_outcome(reply) = "rerun" ->
                   /\ session' = s1
                   /\ wire' = mar_wire(session, "/health", EmptyDict, reply)
                   /\ pc' = "start" /\ event' = "none" /\ view' = view
              [] mar_outcome(reply) = "raise" ->
                   /\ session' = s1
                   /\ wire' = mar_wire(session, "/health", EmptyDict, reply)
                   /\ pc' = "idle" /\ event' = "none" /\ view' = "crash"
              [] reply = "200" ->
                   /\ session' = [s1 EXCEPT !.authenticated = TRUE]
                   /\ wire' = mar_wire(session, "/health", EmptyDict, reply)
                   /\ pc' = "start" /\ event' = "none" /\ view' = view
              [] OTHER ->
                   /\ session' = s1
                   /\ wire' = mar_wire(session, "/health", EmptyDict, reply)
                   /\ pc' = "idle" /\ event' = "none" /\ view' = view
       ELSE
          /\ LoginForms(session)
          /\ view' = view
    /\ UNCHANGED <<now, site, tabs, filters, widgets, todo, batch, generated,
                   rates>>

----------------------------------------------------------------------------
(* dashboard_page() and the call sites it executes, in script order *)

Locations == {"Camden"}
Services == {"Physio"}
Categories == {"Booking"}
TimeFrames == {"week"}

\* the options of the two dropdowns of unique_questions_management
UQCategories == {"All", "Availability", "Booking", "Pricing", "Service",
                 "Location", "Cancellation", "Other"}
UQImpacts == {"All", "high", "medium", "low", "minimal"}

Site(kind, ep, body, arg) ==
    [kind |-> kind, ep |-> ep, body |-> body, arg |-> arg]

\* manager branch of dashboard_page: every call site in execution order.
\* kind "filters": get_filter_options and the filter widgets (no try around);
\* "call": a request inside try/except Exception; "button": the same, made
\* only in the run triggered by that button; "quick": the two batch buttons;
\* "list": an archive listing whose entries are fetched by the "detail" site
\* that follows it (max = "one": a single selected entry, "many": a loop).
ManagerScript == <<
    Site("filters", "/api/analytics/filter-options", "none", "none"),
    Site("call", "/api/analytics/time-breakdown", "filters", "none"),
    Site("call", "/api/analytics/summary-stats", "filters", "none"),
    Site("call", "/api/analytics/same-day-demand", "filters", "none"),
    Site("call", "/api/analytics/location-exclusivity", "filters", "none"),
    Site("call", "/api/analytics/no-booking-reasons", "filters", "none"),
    Site("call", "/api/analytics/geographic-demand", "filters", "none"),
    Site("call", "/api/analytics/geographic-demand", "filters", "none"),
    Site("button", "/api/summaries/generate-daily", "none", "gen_daily"),
    Site("quick", "/api/summaries/generate-daily", "none", "none"),
    Site("list", "/api/summaries/daily?limit=14", "none", "one"),
    Site("detail", "/api/summaries/daily/{date}", "none", "none"),
    Site("button", "/api/summaries/generate-monthly", "none", "gen_monthly"),
    Site("list", "/api/summaries/monthly", "none", "many"),
    Site("detail", "/api/summaries/monthly/{month_year}", "none", "none"),
    Site("button", "/api/summaries/generate-yearly", "none", "gen_yearly"),
    Site("list", "/api/summaries/yearly", "none", "many"),
    Site("detail", "/api/summaries/yearly/{year}", "none", "none"),
    Site("call", "/api/summaries/executive-dashboard", "none", "none"),
    Site("call", "/api/qa/dashboard", "none", "none"),
    Site("call", "/api/qa/get-unique-questions", "uq_filters", "none"),
    Site("call", "/api/qa/get-unique-questions", "min_frequency", "none"),
    Site("list", "/api/service/dashboard", "none", "one"),
    Site("detail", "/api/service/unique-questions/{service}", "none", "none"),
    Site("list", "/api/location/dashboard", "none", "one"),
    Site("detail", "/api/location/unique-questions/{location}", "none", "none")
>>

\* receptionist branch: basic_insights_section, then enhanced_chat_section
ReceptionistScript == <<
    Site("call", "/api/analytics/calls-by-location", "none", "none"),
    Site("chat", "/api/chat", "chat", "none")
>>

Script == IF tabs = "manager" THEN ManagerScript ELSE ReceptionistScript

ManagerEvents == {"none", "logout", "gen_daily", "gen_7", "gen_30",
                  "gen_monthly", "gen_yearly"}
ReceptionistEvents == {"none", "logout", "example", "clear_chat", "send"}

\* the script position after site k (the run ends after the last site)
pc_after(k) == IF k >= Len(Script) THEN "idle" ELSE "script"
\* a script that executes its call site once more instead of going on
site_after_repeats(k) == IF k >= Len(Script) THEN 0 ELSE k
site_after(k) == IF k >= Len(Script) THEN 0 ELSE k + 1
\* a press is consumed by the st.button call that returns True for it
event_after(k, e) == IF k >= Len(Script) THEN "none" ELSE e

\* a logout that deletes every key but chat_history
logout_keeps_chat_history(s) ==
    [k \in {"chat_history"} \cap DOMAIN s |-> s[k]]

\* lines 168-169: every key of st.session_state is deleted
logout(s) ==
    [k \in {} |-> s[k]]

DashboardPage ==
    /\ pc = "dashboard_page"
    /\ IF session.user_role = NoneStr THEN
          \* line 165: None has no attribute title
          /\ view' = "crash"
          /\ pc' = "idle"
          /\ event' = "none"
          /\ UNCHANGED <<session, tabs, site>>
       ELSE IF event = "logout" THEN
          \* lines 167-170: delete every key, then st.rerun()
          /\ session' = logout(session)
          /\ pc' = "start"
          /\ event' = "none"
          /\ UNCHANGED <<view, tabs, site>>
       ELSE
          /\ tabs' = IF session.user_role = "manager"
                     THEN "manager" ELSE "receptionist"
          /\ pc' = "script"
          /\ site' = 1
          /\ UNCHANGED <<session, event, view>>
    /\ message' = NoMessage
    /\ sent' = 0
    /\ UNCHANGED <<now, wire, filters, widgets, todo, batch, generated, rates>>

\* the filters with the location dropdown passed through as selected
build_filters_location_verbatim(date_from, date_to, clinic_location, service_type, category, time_frame) ==
    [date_from |-> date_from,
     date_to |-> date_to,
     clinic_location |-> clinic_location,
     service_type |-> IF service_type # "All" THEN service_type ELSE NoneStr,
     category |-> IF category # "All" THEN category ELSE NoneStr,
     time_frame |-> time_frame]

\* lines 606-613
build_filters(date_from, date_to, clinic_location, service_type, category, time_frame) ==
    [date_from |-> date_from,
     date_to |-> date_to,
     clinic_location |-> IF clinic_location # "All"
                         THEN clinic_location ELSE NoneStr,
     service_type |-> IF service_type # "All" THEN service_type ELSE NoneStr,
     category |-> IF category # "All" THEN category ELSE NoneStr,
     time_frame |-> time_frame]

\* get_filter_options: the reply's lists on 200, the empty lists otherwise
get_filter_options(reply) ==
    IF reply = "200"
    THEN [locations |-> Locations, services |-> Services,
          categories |-> Categories, time_frames |-> TimeFrames]
    ELSE [locations |-> {}, services |-> {}, categories |-> {},
          time_frames |-> {}]

\* enhanced_analytics_section, lines 582-615
EnhancedAnalyticsFilters ==
    /\ pc = "script"
    /\ Script[site].kind = "filters"
    /\ \E reply \in Replies :
         /\ wire' = mar_wire(session, Script[site].ep, EmptyDict, reply)
         /\ message' = mar_message(reply)
         /\ sent' = 1
         /\ CASE mar_outcome(reply) = "rerun" ->
                   /\ session' = mar_session(session, reply)
                   /\ pc' = "start" /\ site' = 0 /\ event' = "none"
                   /\ UNCHANGED <<view, filters, widgets>>
              [] mar_outcome(reply) = "raise" ->
                   \* no try around get_filter_options: the run dies here
                   /\ view' = "crash"
                   /\ pc' = "idle" /\ site' = 0 /\ event' = "none"
                   /\ UNCHANGED <<session, filters, widgets>>
              [] OTHER ->
                   LET fo == get_filter_options(reply) IN
                   \E loc \in {"All"} \cup fo.locations,
                      svc \in {"All"} \cup fo.services,
                      cat \in {"All"} \cup fo.categories,
                      tf \in (IF fo.time_frames = {} THEN {NoneStr}
                              ELSE fo.time_frames) :
                     LET f == build_filters("2025-04-30", "2025-05-31",
                                            loc, svc, cat, tf)
                     IN /\ filters' = f
                        /\ session' = [session EXCEPT !.current_filters = f]
                        /\ widgets' = [location_filter |-> loc,
                                       service_filter |-> svc,
                                       category_filter |-> cat,
                                       time_frame |-> tf]
                        /\ pc' = pc_after(site) /\ site' = site_after(site)
                        /\ UNCHANGED <<event, view>>
    /\ UNCHANGED <<now, tabs, todo, batch, generated, rates>>

\* lines 1860-1864
build_uq_filters(min_freq_filter, category_filter, impact_filter) ==
    [min_frequency |-> min_freq_filter,
     category |-> IF category_filter # "All" THEN category_filter ELSE NoneStr,
     business_impact |-> IF impact_filter # "All"
                         THEN impact_filter ELSE NoneStr]

\* the widget values a call site reads before it builds its body
SiteWidgets(st) ==
    IF st.body = "uq_filters"
    THEN [category_filter : UQCategories, impact_filter : UQImpacts,
          min_freq_filter : {5}]
    ELSE {EmptyDict}

\* the analytics requests sent without the filters
SiteBody_without_filters(st, w) ==
    CASE st.body = "uq_filters" ->
           build_uq_filters(w.min_freq_filter, w.category_filter,
                            w.impact_filter)
      [] st.body = "min_frequency" -> [min_frequency |-> 3]
      [] OTHER -> EmptyDict

\* the JSON body of the request of call site st (None for a GET)
SiteBody(st, w) ==
    CASE st.body = "filters" -> filters
      [] st.body = "uq_filters" ->
           build_uq_filters(w.min_freq_filter, w.category_filter,
                            w.impact_filter)
      [] st.body = "min_frequency" -> [min_frequency |-> 3]
      [] OTHER -> EmptyDict

\* the endpoint of call site st: a detail request names in its path the
\* entry of the listing it fetches, here the number of entries still to do
SiteEndpoint(st, item) ==
    IF st.kind = "detail" THEN st.ep \o "#" \o ToString(item) ELSE st.ep

\* site k is a call made by enhanced_analytics_section with its `filters`
in_analytics(k) == k \in 1..Len(Script) /\ Script[k].body = "filters"

\* one call site of kind call, button, list or detail
RenderCall ==
    /\ pc = "script"
    /\ Script[site].kind \in {"call", "button", "list", "detail"}
    /\ LET st == Script[site] IN
       IF st.kind = "button" /\ event # st.arg THEN
          /\ pc' = pc_after(site) /\ site' = site_after(site)
          /\ event' = event_after(site, event)
          /\ widgets' = EmptyDict
          /\ message' = NoMessage
          /\ sent' = 0
          /\ UNCHANGED <<session, wire, todo, filters>>
       ELSE
          \E reply \in Replies, w \in SiteWidgets(st) :
            /\ wire' = mar_wire(session, SiteEndpoint(st, todo),
                                SiteBody(st, w), reply)
            /\ message' = mar_message(reply)
            /\ sent' = 1
            /\ session' = mar_session(session, reply)
            /\ IF mar_outcome(reply) = "rerun" THEN
                  /\ pc' = "start" /\ site' = 0 /\ event' = "none"
                  /\ todo' = 0
                  /\ filters' = EmptyDict
                  /\ widgets' = EmptyDict
               ELSE
                  /\ event' = IF st.kind = "button" THEN "none"
                              ELSE event_after(site, event)
                  /\ IF in_analytics(site) /\ in_analytics(site + 1)
                     THEN UNCHANGED <<filters, widgets>>
                     ELSE filters' = EmptyDict /\ widgets' = w
                  /\ CASE st.kind = "list" ->
                            \E n \in 0..(IF st.arg = "one" THEN 1 ELSE MaxListed) :
                              IF reply = "200" /\ n > 0
                              THEN /\ todo' = n
                                   /\ pc' = "script" /\ site' = site + 1
                              ELSE /\ todo' = 0
                                   /\ pc' = pc_after(site + 1)
                                   /\ site' = site_after(site + 1)
                       [] st.kind = "detail" ->
                            IF todo > 1 /\ mar_outcome(reply) # "raise"
                            THEN /\ todo' = todo - 1
                                 /\ UNCHANGED <<pc, site>>
                            ELSE /\ todo' = 0
                                 /\ pc' = pc_after(site)
                                 /\ site' = site_after(site)
                       [] OTHER ->
                            /\ todo' = todo
                            /\ pc' = pc_after(site) /\ site' = site_after(site)
    /\ UNCHANGED <<now, view, tabs, batch, generated, rates>>

----------------------------------------------------------------------------
(* generate_multiple_daily_summaries(days) *)

\* the tally with `except: pass`: a raised exception is not counted
batch_tally_uncounted_raise(b, reply) ==
    IF mar_outcome(reply) \in {"rerun", "raise"}
    THEN [b EXCEPT !.i = @ + 1]
    ELSE IF reply = "200"
    THEN [b EXCEPT !.success_count = @ + 1, !.i = @ + 1]
    ELSE [b EXCEPT !.error_count = @ + 1, !.i = @ + 1]

\* lines 2181-2186: the counters after one request.  A 5xx response is
\* falsy, None is falsy, and the bare except also catches the RerunException
\* that make_authenticated_request raises after a 401.
batch_tally(b, reply) ==
    IF mar_outcome(reply) = "response" /\ reply = "200"
    THEN [b EXCEPT !.success_count = @ + 1, !.i = @ + 1]
    ELSE [b EXCEPT !.error_count = @ + 1, !.i = @ + 1]

SECONDS_PER_DAY == 86400

\* the calendar day of datetime t, as strftime("%Y-%m-%d") prints it
date(t) == t \div SECONDS_PER_DAY

\* the target date counted back from today inclusive
batch_target_date_from_today(t, days, i) == date(t) - (days - i - 1)

\* lines 2170-2171: datetime.now() - timedelta(days=days - i), as a date
batch_target_date(t, days, i) == date(t) - (days - i)

\* a loop that gives up after the first failure
batch_stops_on_error(b) == b.i < b.days /\ b.error_count = 0

\* line 2169: `for i in range(days)` has an iteration left
batch_continues(b) == b.i < b.days

\* lines 1452-1457: the two quick-action buttons call the batch with days = 7
\* and days = 30; the loop is explored for every days in 1..MaxDays
DailyQuickActions ==
    /\ pc = "script"
    /\ Script[site].kind = "quick"
    /\ IF event \in {"gen_7", "gen_30"} THEN
          \E days \in 1..MaxDays :
            /\ batch' = [days |-> days, i |-> 0, success_count |-> 0,
                         error_count |-> 0, started |-> date(now)]
            /\ generated' = 0
            /\ pc' = "batch"
            /\ event' = "none"
            /\ UNCHANGED site
       ELSE
          /\ pc' = pc_after(site) /\ site' = site_after(site)
          /\ UNCHANGED <<batch, generated, event>>
    /\ message' = NoMessage
    /\ sent' = 0
    /\ UNCHANGED <<session, now, view, tabs, wire, filters, widgets, todo,
                   rates>>

\* one iteration of the loop of line 2169
BatchIteration ==
    /\ pc = "batch"
    /\ batch_continues(batch)
    /\ \E reply \in Replies :
         /\ wire' = mar_wire(session, Script[site].ep,
                             [target_date |->
                                batch_target_date(now, batch.days, batch.i)],
                             reply)
         /\ session' = mar_session(session, reply)
         /\ message' = mar_message(reply)
         /\ sent' = 1
         /\ generated' = IF reply = "200" THEN generated + 1 ELSE generated
         \* the bare except of line 2185 catches whatever the call raises,
         \* the RerunException included: the loop goes on
         /\ batch' = batch_tally(batch, reply)
         /\ UNCHANGED <<pc, site, event>>
    /\ UNCHANGED <<now, view, tabs, filters, widgets, todo, rates>>

\* line 2190: the loop is over and the tally is shown
BatchReport ==
    /\ pc = "batch"
    /\ ~batch_continues(batch)
    /\ batch' = NoBatch
    /\ generated' = 0
    /\ pc' = pc_after(site) /\ site' = site_after(site)
    /\ message' = NoMessage
    /\ sent' = 0
    /\ UNCHANGED <<session, now, event, view, tabs, wire, filters, widgets,
                   todo, rates>>

\* the batch loop on its own: a manager has pressed a quick-action button,
\* and the clock may pass midnight between two iterations
InitBatch ==
    /\ session = [InitialSession EXCEPT !.authenticated = TRUE,
                                        !.access_token = "tokA",
                                        !.user_role = "manager",
                                        !.username = "alice",
                                        !.login_time = 0]
    /\ now \in TimePoints
    /\ pc = "batch"
    /\ site = 10
    /\ event = "none"
    /\ view = "dashboard"
    /\ tabs = "manager"
    /\ wire = plain_wire("/health", EmptyDict, "200", EmptyDict)
    /\ filters = EmptyDict
    /\ widgets = EmptyDict
    /\ todo = 0
    /\ \E days \in 1..MaxDays :
         batch = [days |-> days, i |-> 0, success_count |-> 0,
                  error_count |-> 0, started |-> date(now)]
    /\ generated = 0
    /\ rates = NoRates
    /\ message = NoMessage
    /\ sent = 0

\* datetime.now() is read at every iteration (line 2170): midnight passes
Midnight ==
    /\ pc = "batch"
    /\ date(now) < MaxMidnights
    /\ now' = now + SECONDS_PER_DAY
    /\ UNCHANGED <<session, pc, site, event, view, tabs, wire, filters,
                   widgets, todo, batch, generated, rates, message, sent>>

NextBatch ==
    \/ BatchIteration
    \/ BatchReport
    \/ Midnight

\* every request is answered or fails, so the loop makes progress
SpecBatch ==
    InitBatch /\ [][NextBatch]_vars
    /\ WF_vars(BatchIteration) /\ WF_vars(BatchReport)

----------------------------------------------------------------------------
(* enhanced_chat_section() *)

ExampleQuery == "How to handle refund requests?"
Queries == {"", " ", ExampleQuery}
Answers == {"answer"}

\* a strip that keeps white space
strip_keeps_blanks(q) == q

\* str.strip on the queries explored
strip(q) == IF q = " " THEN "" ELSE q

ChatSection ==
    /\ pc = "script"
    /\ Script[site].kind = "chat"
    /\ CASE event = "example" ->
              \* line 1202 stores the query for the text area, then reruns
              /\ pc' = "start" /\ site' = 0 /\ event' = "none"
              /\ message' = NoMessage /\ sent' = 0
              /\ UNCHANGED <<session, wire>>
         [] event = "clear_chat" ->
              /\ session' = [session EXCEPT !.chat_history = <<>>]
              /\ pc' = "start" /\ site' = 0 /\ event' = "none"
              /\ message' = NoMessage /\ sent' = 0
              /\ UNCHANGED wire
         [] event = "send" /\ Len(session.chat_history) + 2 <= MaxChat ->
              \E user_query \in Queries :
                IF strip(user_query) = "" THEN
                   /\ pc' = pc_after(site) /\ site' = site_after(site)
                   /\ message' = NoMessage /\ sent' = 0
                   /\ event' = "none" /\ UNCHANGED <<session, wire>>
                ELSE
                   \E reply \in Replies, ai_response \in Answers \cup {Missing} :
                     LET s1 == [session EXCEPT !.chat_history =
                                    Append(@, <<"user", user_query>>)]
                         s2 == mar_session(s1, reply)
                     IN
                     /\ wire' = mar_wire(s1, Script[site].ep,
                                  [message |-> user_query,
                                   filters |-> s1.current_filters], reply)
                     /\ message' = mar_message(reply)
                     /\ sent' = 1
                     /\ CASE mar_outcome(reply) = "rerun" ->
                               /\ session' = s2
                               /\ pc' = "start" /\ site' = 0 /\ event' = "none"
                          [] reply = "200" /\ ai_response # Missing ->
                               /\ session' = [s2 EXCEPT !.chat_history =
                                      Append(@, <<"assistant", ai_response>>)]
                               /\ pc' = "start" /\ site' = 0 /\ event' = "none"
                          [] OTHER ->
                               /\ session' = s2
                               /\ pc' = pc_after(site)
                               /\ site' = site_after(site)
                               /\ event' = "none"
         [] OTHER ->
              /\ pc' = pc_after(site) /\ site' = site_after(site)
              /\ message' = NoMessage /\ sent' = 0
              /\ event' = "none" /\ UNCHANGED <<session, wire>>
    /\ UNCHANGED <<now, view, tabs, filters, widgets, todo, batch, generated,
                   rates>>

----------------------------------------------------------------------------
(* the user and the clock *)

\* the buttons the page on screen offers ("none": reload or widget change)
EventsOf(v, t) ==
    CASE v = "login" -> {"none", "login_btn", "register_btn"}
      [] v = "dashboard" /\ t = "manager" -> ManagerEvents
      [] v = "dashboard" /\ t = "receptionist" -> ReceptionistEvents
      [] OTHER -> {"none"}

UserInteracts ==
    /\ pc = "idle"
    /\ event' \in EventsOf(view, tabs)
    /\ pc' = "start"
    /\ UNCHANGED <<session, now, site, view, tabs, wire, filters, widgets,
                   todo, batch, generated, rates, message, sent>>

\* time passes between runs; datetime.now() is read only at lines 48 and 113
Tick ==
    /\ pc = "idle"
    /\ now' \in {t \in TimePoints : t > now}
    /\ UNCHANGED <<session, pc, site, event, view, tabs, wire, filters,
                   widgets, todo, batch, generated, rates, message, sent>>

Next ==
    \/ Main
    \/ LoginPage
    \/ DashboardPage
    \/ EnhancedAnalyticsFilters
    \/ RenderCall
    \/ DailyQuickActions
    \/ BatchIteration
    \/ BatchReport
    \/ ChatSection
    \/ UserInteracts
    \/ Tick

Spec == Init /\ [][Next]_vars

----------------------------------------------------------------------------
(* The cancellation-rate renderers.  A rate is held in hundredths of a     *)
(* percent, so that 25 is 2500 and one decimal place is a multiple of 10.  *)

HIGH_CANCELLATION == 2500       \* the threshold 25 of lines 723, 1323, 2078

\* round((cancelled / total_calls) * 100, 1): the nearest tenth of a percent,
\* a tie going to the even tenth as Python's round does
round1(cancelled, total_calls) ==
    LET q == (1000 * cancelled) \div total_calls
        r == (1000 * cancelled) % total_calls
    IN 10 * (IF 2 * r < total_calls THEN q
             ELSE IF 2 * r > total_calls THEN q + 1
             ELSE IF q % 2 = 0 THEN q ELSE q + 1)

\* the threshold test with >= for >
high_cancellation_inclusive(rate) == rate >= HIGH_CANCELLATION

\* the comparison `rate > 25` of lines 723, 1323 and 2078
high_cancellation(rate) == rate > HIGH_CANCELLATION

\* time-breakdown replies: every small one, and large ones around 25 percent
BreakdownReplies ==
    {[cancelled |-> c, total_calls |-> t] : t \in 0..MaxCalls, c \in 0..MaxCalls}
    \cup [cancelled : 249..251, total_calls : {999, 1000}]

\* the "breakdown" of a time-breakdown reply: per day, in the order of the
\* JSON object, the calls of the three parts of the day
Breakdowns ==
    {<<[day |-> "Monday", Morning |-> m1, Afternoon |-> 0, Evening |-> e1],
       [day |-> "Tuesday", Morning |-> m2, Afternoon |-> 0, Evening |-> e2]>> :
        m1 \in 0..1, e1 \in 0..1, m2 \in 0..1, e2 \in 0..1}

RECURSIVE slot_calls(_)
slot_calls(breakdown) ==
    IF breakdown = <<>> THEN 0
    ELSE Head(breakdown).Morning + Head(breakdown).Afternoon
         + Head(breakdown).Evening + slot_calls(Tail(breakdown))

TOTALS == "**TOTALS**"                                      \* line 664
NO_DATA == "No data available for the selected filters."    \* line 690

\* lines 653-662: one row per day that has a call in some part of the day
RECURSIVE day_rows(_)
day_rows(breakdown) ==
    IF breakdown = <<>> THEN <<>>
    ELSE LET metrics == Head(breakdown) IN
         (IF metrics.Morning + metrics.Afternoon + metrics.Evening > 0
          THEN <<metrics.day>> ELSE <<>>) \o day_rows(Tail(breakdown))

\* the table built without the test of line 651
core_table_unguarded(breakdown, total_calls) ==
    day_rows(breakdown) \o <<TOTALS>>

\* lines 651-674: the "Day" column of the dataframe that is shown
core_table(breakdown, total_calls) ==
    IF total_calls > 0 THEN day_rows(breakdown) \o <<TOTALS>> ELSE <<>>

\* lines 689-690
core_info(total_calls) == IF total_calls > 0 THEN NoMessage ELSE NO_DATA

\* lines 677-688: the st.metric cards shown, three of them computed by a
\* division by total_calls
core_metrics(total_calls) == IF total_calls > 0 THEN 4 ELSE 0
core_divisions(total_calls) == IF total_calls > 0 THEN 3 ELSE 0

\* cancellation_rate of summary-stats and cancelled_rate of key_metrics
ServerRates == {0, 2490, 2499, 2500, 2501, 2510, 10000}

InitRates ==
    /\ session = InitialSession
    /\ now = 0
    /\ pc = "rates"
    /\ site = 0
    /\ event = "none"
    /\ view = "dashboard"
    /\ tabs = "manager"
    /\ wire = plain_wire("none", EmptyDict, "none", EmptyDict)
    /\ filters = EmptyDict
    /\ widgets = EmptyDict
    /\ todo = 0
    /\ batch = NoBatch
    /\ generated = 0
    /\ message = NoMessage
    /\ sent = 0
    /\ \E b \in BreakdownReplies, sr \in ServerRates, bd \in Breakdowns :
         /\ b.cancelled <= b.total_calls
         /\ slot_calls(bd) <= b.total_calls
         /\ rates = [NoRates EXCEPT !.cancelled = b.cancelled,
                                    !.total_calls = b.total_calls,
                                    !.server_rate = sr,
                                    !.breakdown = bd]

\* executive_reports_section, lines 1304-1325
ExecutiveReport ==
    /\ pc = "rates" /\ rates.shown = "none"
    /\ LET cancel_rate == IF rates.total_calls > 0
                          THEN round1(rates.cancelled, rates.total_calls)
                          ELSE 0
       IN rates' = [rates EXCEPT !.cancel_rate = cancel_rate,
                                 !.warned = high_cancellation(cancel_rate),
                                 !.shown = "executive"]
    /\ UNCHANGED <<session, now, pc, site, event, view, tabs, wire, filters,
                   widgets, todo, batch, generated, message, sent>>

\* core_analytics_section, lines 646-692 and 709-726, with both requests
\* answered 200: the table, the cards or the "no data" message; the metric
\* shows the rate computed from time-breakdown, the warning tests the rate
\* that summary-stats returned (both replies report the same total_calls)
CoreAnalytics ==
    /\ pc = "rates" /\ rates.shown = "none"
    /\ rates' = [rates EXCEPT
                   !.cancel_rate = IF rates.total_calls > 0
                                   THEN round1(rates.cancelled,
                                               rates.total_calls)
                                   ELSE 0,
                   !.warned = rates.total_calls > 0
                              /\ high_cancellation(rates.server_rate),
                   !.table = core_table(rates.breakdown, rates.total_calls),
                   !.info = core_info(rates.total_calls),
                   !.metrics = core_metrics(rates.total_calls),
                   !.divisions = core_divisions(rates.total_calls),
                   !.shown = "core"]
    /\ UNCHANGED <<session, now, pc, site, event, view, tabs, wire, filters,
                   widgets, todo, batch, generated, message, sent>>

\* display_daily_summary_detail, lines 2078-2081
DailySummaryDetail ==
    /\ pc = "rates" /\ rates.shown = "none"
    /\ rates' = [rates EXCEPT
                   !.warned = high_cancellation(rates.server_rate),
                   !.shown = "daily"]
    /\ UNCHANGED <<session, now, pc, site, event, view, tabs, wire, filters,
                   widgets, todo, batch, generated, message, sent>>

NextRates ==
    \/ ExecutiveReport
    \/ CoreAnalytics
    \/ DailySummaryDetail

SpecRates == InitRates /\ [][NextRates]_vars

----------------------------------------------------------------------------
(* Properties *)

Initialised == SessionKeys \subseteq DOMAIN session

\* the seven Session fields of a session dict
SessionFields(s) == [k \in SessionKeys |-> s[k]]

\* the last exchange was an authenticated call that the server rejected
Rejected == wire.authz # NoAuth /\ wire.status = "401"

\* a script position inside dashboard_page
InDashboard == pc \in {"dashboard_page", "script", "batch"}

Expired == session.login_time # NoTime /\ now - session.login_time > HOURS_23

\* C1: in every reachable state, authenticated == True implies that
\* access_token is non-empty and login_time is set.
C1_AuthenticatedHasToken ==
    (Initialised /\ session.authenticated)
        => (Truthy(session.access_token) /\ session.login_time # NoTime)

\* C2: after make_authenticated_request has received a 401 the whole Session
\* equals the state init_session_state produces on an empty session, and
\* applying the reset again changes nothing.
C2_ResetIsInitial ==
    Rejected =>
        /\ SessionFields(session) = init_session_state(EmptyDict)
        /\ reset_on_401(session) = session

\* C3: a session whose login_time is more than 23 hours in the past is not
\* given the dashboard: no run is inside dashboard_page for it.
C3_ExpiredNotRendered ==
    (Initialised /\ InDashboard) => ~Expired

\* C4 (as claimed): is_token_valid() is True iff access_token is present and
\* now - login_time < 23 hours, so it is False at exactly 23 hours.
C4_ValidIffLessThan23h ==
    Initialised =>
        (is_token_valid(session, now)
            <=> /\ Truthy(session.access_token)
                /\ session.login_time # NoTime
                /\ now - session.login_time < HOURS_23)

\* C4 (amended): is_token_valid() is True iff access_token is present,
\* login_time is set and now - login_time <= 23 hours: True at exactly 23
\* hours, False at 23 hours plus one second.
C4_ValidIffAtMost23h ==
    Initialised =>
        /\ is_token_valid(session, now)
             <=> /\ Truthy(session.access_token)
                 /\ session.login_time # NoTime
                 /\ now - session.login_time <= HOURS_23
        /\ (Truthy(session.access_token) /\ session.login_time # NoTime)
             => /\ now - session.login_time = HOURS_23
                      => is_token_valid(session, now)
                /\ now - session.login_time = HOURS_23 + 1
                      => ~is_token_valid(session, now)

C4_Witness ==
    /\ Initialised
    /\ Truthy(session.access_token)
    /\ session.login_time # NoTime
    /\ now - session.login_time = HOURS_23
    /\ is_token_valid(session, now)

Authenticated(s) == SessionKeys \subseteq DOMAIN s /\ s.authenticated
TokenValid(s, t) == SessionKeys \subseteq DOMAIN s /\ is_token_valid(s, t)
LoginAccepted(w) == w.ep = "/api/auth/login" /\ w.status = "200"

\* C5: after an authenticated call has returned 401, is_token_valid() is
\* False and the session is unauthenticated; both stay so until a login is
\* answered with 200; the next run of main() that passes the health check
\* puts an unauthenticated session on the login page, not on the dashboard.
C5_After401LoginNext ==
    [][ /\ Rejected' => (~Authenticated(session') /\ ~TokenValid(session', now'))
        /\ (~TokenValid(session, now) /\ TokenValid(session', now'))
              => LoginAccepted(wire')
        /\ (~Authenticated(session) /\ Authenticated(session'))
              => LoginAccepted(wire')
        /\ (pc = "start" /\ pc' \in {"login_page", "dashboard_page"}
                /\ ~Authenticated(session'))
              => (pc' = "login_page" /\ view' = "login")
      ]_vars

\* a login page rendered for a session that a 401 has reset: only the 401
\* handler leaves filters or chat behind in an unauthenticated session
C5_Witness ==
    /\ pc = "login_page" /\ view = "login"
    /\ ~session.authenticated
    /\ ~is_token_valid(session, now)
    /\ session.current_filters # EmptyDict

\* C6: a 401 is handled the same way at every call site, the loop of
\* generate_multiple_daily_summaries included: the session is reset and the
\* run ends there (the rerun is pending), so nothing more is requested.
C6_RunEndsOn401 ==
    Rejected => (pc = "start" /\ ~Authenticated(session))

FilterFields == {"date_from", "date_to", "clinic_location", "service_type",
                 "category", "time_frame", "business_impact"}

NoLiteralAll(body) ==
    \A k \in FilterFields \cap DOMAIN body : body[k] # "All"

Normalised(selected, field) ==
    /\ (selected = "All") <=> (field = NoneStr)
    /\ (selected # "All") => (field = selected)

\* C7: the FilterSet of enhanced_analytics_section has clinic_location,
\* service_type and category null exactly when the dropdown shows "All" and
\* equal to the selection otherwise, and so have category and
\* business_impact in unique_questions_management; no filter field that is
\* stored or sent is the literal "All".
C7_AllIsNoConstraint ==
    /\ ("location_filter" \in DOMAIN widgets) =>
          /\ Normalised(widgets.location_filter, filters.clinic_location)
          /\ Normalised(widgets.service_filter, filters.service_type)
          /\ Normalised(widgets.category_filter, filters.category)
          /\ session.current_filters = filters
          /\ (wire.body # EmptyDict => wire.body = filters)
    /\ ("impact_filter" \in DOMAIN widgets) =>
          /\ Normalised(widgets.category_filter, wire.body.category)
          /\ Normalised(widgets.impact_filter, wire.body.business_impact)
    /\ NoLiteralAll(wire.body)
    /\ NoLiteralAll(filters)
    /\ Initialised => NoLiteralAll(session.current_filters)

C7_Witness ==
    /\ wire.ep = "/api/analytics/time-breakdown"
    /\ "location_filter" \in DOMAIN widgets
    /\ widgets.location_filter = "All"
    /\ widgets.service_filter = "Physio"
    /\ wire.body.clinic_location = NoneStr
    /\ wire.body.service_type = "Physio"

\* C8: in generate_multiple_daily_summaries, after every iteration
\* success_count is the number of requests answered 200, error_count is the
\* number of all the others, and the two sum to the iterations done; at the
\* end success_count = K and error_count = N - K.
C8_BatchTally ==
    pc = "batch" =>
        /\ batch.success_count = generated
        /\ batch.success_count + batch.error_count = batch.i
        /\ batch.i <= batch.days
        /\ (batch.i = batch.days)
              => batch.error_count = batch.days - generated

\* a finished batch with a success, a failure and a 401 among its replies
C8_Witness ==
    /\ pc = "batch"
    /\ batch.i = batch.days
    /\ batch.success_count > 0
    /\ batch.error_count > 1
    /\ ~session.authenticated

LoginComplete(w) ==
    /\ LoginAccepted(w)
    /\ w.resp.access_token # Missing
    /\ w.resp.role # Missing

\* the login POST of this step was answered 200 with a token and a role
LoginReturned == pc = "login_page" /\ LoginComplete(wire')

\* a run that starts on the rerun which a completed login has requested
AfterLogin == pc = "start" /\ LoginComplete(wire) /\ pc' # "start"

LoginPopulates ==
    LoginReturned =>
        /\ session'.authenticated = TRUE
        /\ session'.access_token = wire'.resp.access_token
        /\ session'.user_role = wire'.resp.role
        /\ session'.username = wire'.body.username
        /\ session'.login_time = now
        /\ pc' = "start"

LoginFailed ==
    /\ pc = "login_page" /\ event = "login_btn"
    /\ sent' = 1 /\ wire'.ep = "/api/auth/login"
    /\ ~LoginComplete(wire')

\* C11: a login attempt that fails (non-200 status, or an exception while
\* posting or decoding the reply) leaves every session field unchanged and
\* the session unauthenticated, shows the detail of the reply in the error
\* message, and a click sends one POST to /api/auth/login and no more: the
\* run ends after it.
C11_FailedLoginNoEffect ==
    [][ /\ LoginFailed =>
              /\ session' = session
              /\ ~session'.authenticated
              /\ (wire'.resp.detail # Missing) =>
                     message' = "Login failed: " \o wire'.resp.detail
              /\ pc' = "idle"
        /\ (pc = "login_page" /\ event = "login_btn") =>
              (sent' <= 1 /\ event' = "none")
      ]_vars

\* the Logout button is reached and pressed in this step
LogoutPressed ==
    pc = "dashboard_page" /\ event = "logout" /\ session.user_role # NoneStr

\* the run that starts on the rerun which Logout has requested
AfterLogout == pc = "start" /\ view = "dashboard" /\ ~Initialised

\* every Session field of s has the value init_session_state gives it
AllInitial(s) == SessionFields(s) = init_session_state(EmptyDict)

\* C12 (as claimed): after Logout is pressed the script reruns, and that run
\* leaves every session field at its initial value and renders the login
\* page.
C12_LogoutThenLogin ==
    [][ /\ LogoutPressed => pc' = "start"
        /\ AfterLogout => /\ AllInitial(session')
                          /\ view' = "login" /\ pc' = "login_page"
      ]_vars

\* C12 (amended): after Logout is pressed the script reruns; that run leaves
\* every session field at its initial value, and it renders the login page
\* if its health check passes and the connection error otherwise.
C12_LogoutThenLoginIfHealthy ==
    [][ /\ LogoutPressed => pc' = "start"
        /\ AfterLogout =>
              /\ AllInitial(session')
              /\ wire'.status = "200" =>
                     (view' = "login" /\ pc' = "login_page")
              /\ wire'.status # "200" =>
                     (view' = "conn_error" /\ pc' = "idle")
      ]_vars

\* Logout pressed after the 23 hour mark, rerun pending
C12_Witness ==
    /\ pc = "start" /\ view = "dashboard" /\ session = EmptyDict
    /\ wire.ep = "/health" /\ wire.status = "200"
    /\ now = HOURS_23

\* the five fields that the 401 handler of make_authenticated_request clears
AuthKeys == {"authenticated", "access_token", "user_role", "username",
             "login_time"}

\* make_authenticated_request was called in this step
Called == pc \in {"start", "login_page", "script", "batch"}
          /\ sent' >= 1 /\ wire'.authz # NoAuth

\* no session field changes in this step, but for what the call site
\* itself assigns around the call: enhanced_chat_section appends the user
\* message before it calls (line 1236), enhanced_analytics_section stores
\* the filters after get_filter_options has returned (line 615)
SessionKept ==
    /\ \A k \in AuthKeys : session'[k] = session[k]
    /\ session'.chat_history # session.chat_history =>
          /\ pc = "script" /\ Script[site].kind = "chat"
          /\ session'.chat_history =
                 Append(session.chat_history, <<"user", wire'.body.message>>)
    /\ session'.current_filters # session.current_filters =>
          /\ pc = "script" /\ Script[site].kind = "filters"
          /\ session'.current_filters = filters'

\* the caller got no response: it takes the path of a failed call
NoData ==
    /\ pc = "batch" => batch'.error_count = batch.error_count + 1
    /\ (pc = "script" /\ Script[site].kind = "filters") =>
          widgets' = [location_filter |-> "All", service_filter |-> "All",
                      category_filter |-> "All", time_frame |-> NoneStr]
    /\ (pc = "script" /\ Script[site].kind = "list") => todo' = 0
    /\ (pc = "script" /\ Script[site].kind = "chat") =>
          session'.chat_history[Len(session'.chat_history)][1] = "user"

\* C13: when the transport fails to connect inside
\* make_authenticated_request, the caller gets no data, the error shown is
\* the connectivity message, which is not the session-expired message, and
\* no session field is changed: no reset, an authenticated session stays
\* authenticated, and the run goes on.
C13_ConnectFailureKeepsSession ==
    [][ (Called /\ wire'.status = "conn") =>
           /\ message' = CANNOT_CONNECT
           /\ message' # SESSION_EXPIRED
           /\ SessionKept
           /\ session.authenticated => session'.authenticated
           /\ NoData
           /\ pc' # "start"
      ]_vars

\* a connection failure in the middle of the manager's analytics
C13_Witness ==
    /\ pc = "script" /\ wire.status = "conn"
    /\ wire.ep = "/api/analytics/summary-stats"
    /\ message = CANNOT_CONNECT /\ sent = 1
    /\ session.authenticated /\ wire.authz = session.access_token
    /\ session.access_token \in Tokens

\* the health check of this run of main() has failed
HealthFailed == pc = "start" /\ wire'.ep = "/health" /\ wire'.status = "down"

\* C14: when the health check of main() fails, the run shows the
\* connection error and ends: neither page is rendered, the only request
\* of the run is the unauthenticated GET /health, and the session fields
\* are as init_session_state left them, unchanged if they existed; a later
\* run whose health check passes gives an authenticated session the
\* dashboard.
C14_HealthFailureBlocks ==
    [][ /\ HealthFailed =>
              /\ view' = "conn_error" /\ pc' = "idle"
              /\ message' = SERVER_DOWN
              /\ sent' = 1 /\ wire'.authz = NoAuth
              /\ session' = init_session_state(session)
              /\ Initialised => session' = session
        /\ (view = "conn_error" /\ pc = "idle") =>
              (session' = session /\ view' = view)
        /\ (pc = "start" /\ view = "conn_error"
                /\ Authenticated(session) /\ wire'.status = "200") =>
              /\ view' = "dashboard" /\ pc' = "dashboard_page"
              /\ session' = session
      ]_vars

\* an authenticated session in front of the connection error
C14_Witness ==
    /\ view = "conn_error" /\ pc = "idle"
    /\ wire.ep = "/health" /\ wire.status = "down" /\ wire.authz = NoAuth
    /\ message = SERVER_DOWN
    /\ session.authenticated /\ session.access_token \in Tokens

\* C15: no failure of a remote call (non-200 status, connection failure,
\* other transport error, 200 reply with a missing or null field, a null
\* role at login included) ends the render of login_page or dashboard_page
\* with an unhandled exception.
C15_NoCrash == view # "crash"

\* C16: a time-breakdown reply with total_calls = 0 makes
\* core_analytics_section show the "no data" message, no table and no rate
\* metric, so nothing is divided by total_calls; a reply with
\* total_calls > 0 shows the table, whose last row and no other is the
\* TOTALS row, and no "no data" message.
C16_NoDataOrTotals ==
    rates.shown = "core" =>
        /\ rates.total_calls = 0 =>
              /\ rates.info = NO_DATA
              /\ rates.table = <<>>
              /\ rates.metrics = 0 /\ rates.divisions = 0
        /\ rates.total_calls > 0 =>
              /\ rates.info = NoMessage
              /\ Len(rates.table) >= 1
              /\ \A i \in 1..Len(rates.table) :
                    (rates.table[i] = TOTALS) <=> (i = Len(rates.table))
              /\ rates.metrics = 4

\* the renderer has run on a reply with total_calls = 0
C16_Witness ==
    /\ rates.shown = "core" /\ rates.total_calls = 0
    /\ rates.info = NO_DATA /\ rates.table = <<>>

\* C17: every request of make_authenticated_request is sent while the
\* session holds a non-empty access_token and carries that token, the one
\* current at the time of the call, in its Authorization header; none is
\* sent with the token absent.
C17_BearerCurrentToken ==
    [][ Called => /\ Truthy(session.access_token)
                  /\ wire'.authz = session.access_token
                  /\ wire'.authz \in Tokens
      ]_vars

\* a request of one of the six analytics endpoints is sent in this step
AnalyticsCall == pc = "script" /\ in_analytics(site) /\ sent' = 1

\* C18: within one render of enhanced_analytics_section every analytics
\* request carries the same FilterSet: the local `filters` built from the
\* widget values of this render, which does not change from one request to
\* the next and equals session.current_filters when each request is sent.
C18_OneFilterSetPerRender ==
    [][ AnalyticsCall =>
           /\ wire'.body = filters
           /\ wire'.ep = Script[site].ep
           /\ filters = build_filters("2025-04-30", "2025-05-31",
                                      widgets.location_filter,
                                      widgets.service_filter,
                                      widgets.category_filter,
                                      widgets.time_frame)
           /\ session.current_filters = filters
           /\ (pc' = "script" /\ in_analytics(site')) =>
                  /\ filters' = filters /\ widgets' = widgets
                  /\ session'.current_filters = filters
      ]_vars

\* the last of the analytics requests of a render that has selected a
\* location: the filter-options request and six analytics requests before
\* it were answered
C18_Witness ==
    /\ wire.ep = "/api/analytics/geographic-demand" /\ site = 9
    /\ wire.body.clinic_location = "Camden"
    /\ wire.body.service_type = NoneStr
    /\ session.current_filters = wire.body

\* a call site of a view renderer has been executed in this step and the
\* renderer goes on or returns: no rerun is pending
RendererReturns ==
    /\ pc \in {"script", "batch"}
    /\ Script[site].kind \in {"call", "button", "quick", "list", "detail"}
    /\ pc' # "start"

\* C19: the view renderers never change a Session field or the FilterSet
\* they receive: across a call site of a renderer that returns, the session
\* is the same and so is `filters` while the analytics renderers run.
C19_RenderersKeepSession ==
    [][ RendererReturns =>
           /\ session' = session
           /\ (in_analytics(site) /\ in_analytics(site')) =>
                  filters' = filters
      ]_vars

\* make_authenticated_request has returned a response in this step
Responded == Called /\ wire'.status \in {"200", "403", "500"}

\* the caller has been given the response as the server sent it: it takes
\* its success path for a 200 only
ReturnedRaw ==
    /\ pc = "batch" =>
          /\ (wire'.status = "200") =>
                 batch'.success_count = batch.success_count + 1
          /\ (wire'.status # "200") =>
                 batch'.error_count = batch.error_count + 1
    /\ (pc = "script" /\ Script[site].kind = "list" /\ wire'.status # "200")
          => todo' = 0
    /\ (pc = "script" /\ Script[site].kind = "filters"
            /\ wire'.status # "200")
          => widgets'.location_filter = "All"
    /\ (pc = "script" /\ Script[site].kind = "chat"
            /\ wire'.status # "200")
          => session'.chat_history[Len(session'.chat_history)][1] = "user"

\* C20: for every response whose status is not 401 (200, 403, 500)
\* make_authenticated_request hands the response to the caller as it is
\* and changes no session field: the five fields of the 401 handler keep
\* their values, chat_history changes only in enhanced_chat_section and
\* current_filters only in enhanced_analytics_section, by the caller's own
\* assignments.
C20_OtherStatusReturned ==
    [][ Responded =>
           /\ \A k \in AuthKeys : session'[k] = session[k]
           /\ session'.chat_history # session.chat_history =>
                  (pc = "script" /\ Script[site].kind = "chat")
           /\ session'.current_filters # session.current_filters =>
                  /\ pc = "script" /\ Script[site].kind = "filters"
                  /\ session'.current_filters = filters'
           /\ ReturnedRaw
      ]_vars

\* a 403 handed to the loop of generate_multiple_daily_summaries
C20_Witness ==
    /\ pc = "batch" /\ wire.status = "403" /\ sent = 1
    /\ batch.error_count = 1 /\ batch.success_count = 0
    /\ session.authenticated /\ wire.authz = session.access_token
    /\ session.access_token \in Tokens

\* one iteration of the loop is executed in this step
Iterates == pc = "batch" /\ batch_continues(batch) /\ batch'.i # batch.i

\* the tally is reported in this step
Reports == pc = "batch" /\ pc' # "batch"

\* C21: generate_multiple_daily_summaries(N) sends one generate-daily
\* request per iteration, one after another, N in all; a failure neither
\* ends the loop nor takes back a counted success; the loop always ends by
\* reporting the tally of N iterations.
C21_BatchRunsToTheEnd ==
    /\ [][ /\ Iterates =>
               /\ sent' = 1
               /\ wire'.ep = "/api/summaries/generate-daily"
               /\ batch'.i = batch.i + 1
               /\ batch'.days = batch.days
               /\ batch'.success_count >= batch.success_count
               /\ batch'.error_count >= batch.error_count
               /\ pc' = "batch"
           /\ (pc = "batch" /\ batch'.i = batch.i) => sent' = sent
           /\ Reports =>
               /\ batch.i = batch.days
               /\ batch.success_count + batch.error_count = batch.days
               /\ sent' = 0
          ]_vars
    /\ [](pc = "batch" => <>(pc # "batch"))

\* a loop of three iterations that has gone on after two failures
C21_Witness ==
    /\ pc = "batch" /\ batch.days = 3 /\ batch.i = 3
    /\ batch.error_count = 2 /\ batch.success_count = 1
    /\ wire.status = "200"

\* C29: the target dates of the N requests of the loop are strictly
\* increasing, hence pairwise distinct; each is earlier than the day on
\* which its request is sent; while the day is the one on which the loop
\* started, request i (from 0) asks for today - N + i, so that without a
\* change of date the dates are today - N ... today - 1.
C29_TargetDates ==
    [][ Iterates =>
           /\ wire'.body.target_date < date(now)
           /\ batch.i > 0 =>
                  wire'.body.target_date > wire.body.target_date
           /\ date(now) = batch.started =>
                  wire'.body.target_date
                     = batch.started - batch.days + batch.i
           /\ (date(now) = batch.started /\ batch'.i = batch.days) =>
                  wire'.body.target_date = date(now) - 1
      ]_vars

\* the last request of a loop of three, sent after a midnight has passed
C29_Witness ==
    /\ pc = "batch" /\ batch.days = 3 /\ batch.i = 3
    /\ date(now) = batch.started + 1
    /\ wire.body.target_date = date(now) - 1

\* a call of make_authenticated_request has failed in this step
Failed == Called /\ wire'.status # "200"

\* the request of this step is the one the render has sent just before, and
\* that one had failed
SentAgain ==
    /\ Called /\ pc \in {"script", "batch"}
    /\ wire.authz # NoAuth /\ wire.status # "200"
    /\ wire'.ep = wire.ep /\ wire'.body = wire.body

\* a call of make_authenticated_request sends one request, and a call site
\* does not execute its request a second time after a failure
NoRetry ==
    /\ (pc \in {"login_page", "script", "batch"}) => sent' <= 1
    /\ (Failed /\ pc = "script") =>
          ~(pc' = "script" /\ site' = site /\ todo' = todo)
    /\ (Failed /\ pc = "batch") => batch'.i = batch.i + 1

\* C22 (as claimed): nothing is retried: a call of
\* make_authenticated_request sends at most one request, and within one
\* render a request that has failed is not sent again.
C22_NoRepeatInRender ==
    [][ NoRetry /\ ~SentAgain ]_vars

\* C22 (amended): ... and within one render a request that has failed is
\* not sent again by its call site; it is sent again in the same render
\* only by the next call site when that site makes the same request, as
\* postcode_intelligence_section does after geographic_analysis_section.
C22_NoRetryByCallSite ==
    [][ /\ NoRetry
        /\ SentAgain =>
              /\ pc = "script" /\ site > 1
              /\ Script[site].kind = "call"
              /\ Script[site - 1].ep = Script[site].ep
              /\ Script[site - 1].body = Script[site].body
      ]_vars

\* geographic-demand has failed in geographic_analysis_section and has
\* been requested again by postcode_intelligence_section
C22_Witness ==
    /\ pc = "script" /\ site = 9 /\ sent = 1
    /\ wire.ep = "/api/analytics/geographic-demand"
    /\ wire.status = "500" /\ message = NoMessage
    /\ session.authenticated

\* the Login button has posted in this step
LoginPosted ==
    /\ pc = "login_page" /\ event = "login_btn"
    /\ sent' = 1 /\ wire'.ep = "/api/auth/login"

\* C23: login is all-or-nothing: after a login attempt either
\* authenticated, access_token, user_role, username and login_time are all
\* set from the attempt, or none of them differs from its value before.
C23_LoginAllOrNothing ==
    [][ LoginPosted =>
           \/ \A k \in AuthKeys : session'[k] = session[k]
           \/ /\ session'.authenticated = TRUE
              /\ session'.access_token = wire'.resp.access_token
              /\ session'.user_role = wire'.resp.role
              /\ session'.username = wire'.body.username
              /\ session'.login_time = now
      ]_vars

\* C24: in every reachable state authenticated == False implies that
\* access_token and login_time are None; so the guards of the two token
\* re-validations are never true where they are evaluated, and
\* authenticated becomes True only in the step of a login answered 200.
C24_UnauthenticatedHasNoToken ==
    /\ [](Initialised /\ ~session.authenticated
             => /\ session.access_token = NoneStr
                /\ session.login_time = NoTime)
    /\ [](pc = "start"
             => ~main_revalidates(init_session_state(session), now))
    /\ [](pc = "login_page" => ~login_revalidates(session, now))
    /\ [][ (~Authenticated(session) /\ Authenticated(session'))
              => (pc = "login_page" /\ LoginAccepted(wire') /\ sent' = 1)
         ]_vars

\* a session that was logged in and has been reset by a 401, at the start
\* of the run that evaluates the re-validation guard of main()
C24_Witness ==
    /\ pc = "start" /\ Rejected /\ Initialised
    /\ ~session.authenticated
    /\ session.access_token = NoneStr /\ session.login_time = NoTime
    /\ now = HOURS_23 + 1

\* the endpoints requested by the two branches of dashboard_page
ManagerEndpoints == {ManagerScript[k].ep : k \in 1..Len(ManagerScript)}
ReceptionistEndpoints ==
    {ReceptionistScript[k].ep : k \in 1..Len(ReceptionistScript)}

\* C25: a session whose user_role is not "manager" sends no request to a
\* manager endpoint and gets the receptionist view; a manager session
\* sends no request to /api/chat or calls-by-location.
C25_RoleGating ==
    [][ (Called /\ pc \in {"script", "batch"}) =>
           /\ Script[site].ep \in ManagerEndpoints
                 => session.user_role = "manager"
           /\ Script[site].ep \in ReceptionistEndpoints
                 => session.user_role # "manager"
           /\ tabs = IF session.user_role = "manager"
                     THEN "manager" ELSE "receptionist"
      ]_vars

\* the Register button has posted in this step
RegisterPosted ==
    /\ pc = "login_page" /\ event = "register_btn"
    /\ sent' = 1 /\ wire'.ep = "/api/auth/register"

\* C26: whatever the reply to POST /api/auth/register, no session field
\* changes and the session stays unauthenticated; only a later login
\* answered 200 authenticates.
C26_RegisterKeepsSession ==
    [][ /\ RegisterPosted =>
              /\ session' = session
              /\ ~session'.authenticated
              /\ pc' = "idle"
        /\ (~Authenticated(session) /\ Authenticated(session'))
              => wire'.ep # "/api/auth/register"
      ]_vars

\* a registration that the server has accepted
C26_Witness ==
    /\ wire.ep = "/api/auth/register" /\ wire.status = "200"
    /\ wire.body.role = "manager"
    /\ message = "Registration successful! Please login."
    /\ pc = "idle" /\ view = "login"
    /\ SessionFields(session) = InitialSession

\* C27: Login pressed with an empty username or password, or Register
\* with an empty username, email or password, sends no request and changes
\* no session field: a request that is sent carries no empty field, and a
\* press that sends none leaves the session and the wire as they were.
C27_EmptyFieldsSendNothing ==
    [][ /\ LoginPosted =>
              (wire'.body.username # "" /\ wire'.body.password # "")
        /\ RegisterPosted =>
              /\ wire'.body.username # "" /\ wire'.body.email # ""
              /\ wire'.body.password # ""
        /\ (pc = "login_page" /\ event \in {"login_btn", "register_btn"}
               /\ sent' = 0) =>
              /\ session' = session /\ wire' = wire
              /\ message' \in {"Please enter both username and password",
                                "Please fill in all fields"}
      ]_vars

\* Login pressed with a field left empty
C27_Witness ==
    /\ pc = "idle" /\ view = "login" /\ sent = 0
    /\ message = "Please enter both username and password"
    /\ wire.ep = "/health"
    /\ SessionFields(session) = InitialSession

\* chat_history of a session dict, empty while the key does not exist
Chat(s) == IF "chat_history" \in DOMAIN s THEN s.chat_history ELSE <<>>

Blank(q) == q \in {"", " "}

\* the Clear Chat button is evaluated in this step
ClearPressed ==
    pc = "script" /\ Script[site].kind = "chat" /\ event = "clear_chat"

C30_InitKeepsSession ==
    /\ [](init_session_state(init_session_state(session))
             = init_session_state(session))
    /\ [](Initialised => init_session_state(session) = session)
    /\ [][ pc = "start" =>
              /\ \A k \in DOMAIN session : session'[k] = session[k]
              /\ \A k \in SessionKeys \ DOMAIN session :
                    session'[k] = InitialSession[k]
         ]_vars

\* a rerun starts for a logged-in receptionist with a conversation
C30_Witness ==
    /\ pc = "start" /\ Initialised
    /\ session.authenticated /\ session.user_role = "receptionist"
    /\ Len(session.chat_history) = 2
    /\ session.access_token \in Tokens

====
